---- MODULE Spec2Model ----
(***************************************************************************)
(* ChoiceMap shared utilities (src/shared-utils.js): the graph leveling    *)
(* and layout engine.  calculateNodeLevels is modelled loop iteration by   *)
(* loop iteration; getEffectiveLevel, getNodeLevel, calculateAutoPositions,*)
(* getConnectionPath, getArrowPosition and sanitizeUrl are modelled as     *)
(* whole calls built on the same definitions.                              *)
(***************************************************************************)
EXTENDS Integers, Sequences, FiniteSets, TLC

(***************************************************************************)
(* Bounds of the explored inputs.                                          *)
(***************************************************************************)
\* number of keys of the node mapping
MaxNodes == 3
\* total number of choices over all nodes
MaxEdges == 3

\* Names of the node keys, in the iteration order of the node mapping
\* (Object.keys: insertion order for keys that are not array indices).
KeyNames == <<"A", "B", "C", "D", "E">>

\* Property names every plain object inherits from Object.prototype: the
\* lookup nodes[id] is truthy for them although they are not keys of the
\* mapping.  One representative.
ProtoKeys == {"constructor"}

\* Ids that are not keys of the mapping: an unknown id, the empty string and
\* an inherited property name.
DanglingIds == {"ghost", ""} \cup ProtoKeys

VARIABLES
    nodes,      \* the node mapping: [keys: Seq(id), choices: id -> Seq(id), level: id -> override]
    startNode,  \* the startNode argument
    queue,      \* calculateNodeLevels: const queue
    qi,         \* calculateNodeLevels: let qi
    visited,    \* calculateNodeLevels: const visited
    levels,     \* calculateNodeLevels: const levels (level number -> Seq(id))
    pc,         \* position of the call
    call,       \* the function called on the node mapping, with its other arguments
    result      \* what the call returned

vars == <<nodes, startNode, queue, qi, visited, levels, pc, call, result>>

(***************************************************************************)
(* Helpers on sequences.                                                   *)
(***************************************************************************)
Range(s) == {s[i] : i \in 1..Len(s)}

\* Array.prototype.includes / indexOf(...) !== -1
Includes(s, x) == \E i \in 1..Len(s) : s[i] = x

RECURSIVE SelectSeqBy(_, _)
\* the subsequence of s whose elements are in set S
SelectSeqBy(s, S) ==
    IF s = <<>> THEN <<>>
    ELSE IF Head(s) \in S THEN <<Head(s)>> \o SelectSeqBy(Tail(s), S)
    ELSE SelectSeqBy(Tail(s), S)

(***************************************************************************)
(* The node mapping.                                                       *)
(***************************************************************************)
\* Object.keys(nodes)
ObjectKeys(n) == n.keys

OwnKeys(n) == Range(n.keys)

\* nodes[id] is truthy: id is a key of the mapping (its value a node object)
\* or a property inherited from Object.prototype.
HasNode(n, id) == id \in OwnKeys(n) \/ id \in ProtoKeys

\* nodes[id].choices || []  (an inherited property has no choices)
ChoicesOf(n, id) == IF id \in OwnKeys(n) THEN n.choices[id] ELSE <<>>

(***************************************************************************)
(* calculateNodeLevels                                                     *)
(***************************************************************************)
EmptyLevels == [l \in {} |-> <<>>]

\* const queue = [{ id: startNode, level: 1 }]
FirstLevel == 1

InitialQueue(start) == << [id |-> start, level |-> FirstLevel] >>

\* if (visited.has(id) || !nodes[id]) continue;
SkipEntry(n, vis, id) == id \in vis \/ ~HasNode(n, id)

\* if (!levels[level]) levels[level] = []; levels[level].push(id);
PushLevel(lv, level, id) ==
    IF level \in DOMAIN lv
    THEN [lv EXCEPT ![level] = Append(@, id)]
    ELSE (level :> <<id>>) @@ lv

\* queue.push({ id: choice.next, level: level + 1 })
ChildEntry(next, level) == [id |-> next, level |-> level + 1]

RECURSIVE ChoiceEntriesReversed(_, _, _)
\* Mutant: the choices are enqueued last to first.
ChoiceEntriesReversed(chs, vis, level) ==
    IF chs = <<>> THEN <<>>
    ELSE IF Head(chs) # "" /\ Head(chs) \notin vis
         THEN ChoiceEntriesReversed(Tail(chs), vis, level) \o <<[id |-> Head(chs), level |-> level + 1]>>
         ELSE ChoiceEntriesReversed(Tail(chs), vis, level)

RECURSIVE ChoiceEntries(_, _, _)
\* forEach(choice => { if (choice.next && !visited.has(choice.next)) queue.push(...) })
\* vis already holds the node being expanded.
ChoiceEntries(chs, vis, level) ==
    IF chs = <<>> THEN <<>>
    ELSE IF Head(chs) # "" /\ Head(chs) \notin vis
         THEN <<ChildEntry(Head(chs), level)>> \o ChoiceEntries(Tail(chs), vis, level)
         ELSE ChoiceEntries(Tail(chs), vis, level)

\* Mutant: the entries are taken from the end of the queue (a stack).
BfsIterLifo(n, b) ==
    LET last == Len(b.queue)
        e    == b.queue[last]
        rest == SubSeq(b.queue, 1, last - 1)
    IN
    IF SkipEntry(n, b.visited, e.id)
    THEN [b EXCEPT !.queue = rest]
    ELSE LET vis == b.visited \cup {e.id} IN
         [queue   |-> rest \o ChoiceEntries(ChoicesOf(n, e.id), vis, e.level),
          qi      |-> b.qi,
          visited |-> vis,
          levels  |-> PushLevel(b.levels, e.level, e.id)]

\* Mutant: a skipped entry is not consumed (continue before qi++).
BfsIterStuck(n, b) ==
    LET e == b.queue[b.qi + 1] IN
    IF SkipEntry(n, b.visited, e.id)
    THEN b
    ELSE LET vis == b.visited \cup {e.id} IN
         [queue   |-> b.queue \o ChoiceEntries(ChoicesOf(n, e.id), vis, e.level),
          qi      |-> b.qi + 1,
          visited |-> vis,
          levels  |-> PushLevel(b.levels, e.level, e.id)]

\* One iteration of  while (qi < queue.length)  on the loop state b.
BfsIter(n, b) ==
    LET e == b.queue[b.qi + 1] IN
    IF SkipEntry(n, b.visited, e.id)
    THEN [b EXCEPT !.qi = b.qi + 1]
    ELSE LET vis == b.visited \cup {e.id} IN
         [queue   |-> b.queue \o ChoiceEntries(ChoicesOf(n, e.id), vis, e.level),
          qi      |-> b.qi + 1,
          visited |-> vis,
          levels  |-> PushLevel(b.levels, e.level, e.id)]

RECURSIVE OrphanPass(_, _, _)
\* Object.keys(nodes).forEach(id => { if (!visited.has(id)) levels[0].push(id) })
OrphanPass(keys, vis, lv) ==
    IF keys = <<>> THEN lv
    ELSE IF Head(keys) \notin vis
         THEN OrphanPass(Tail(keys), vis, PushLevel(lv, 0, Head(keys)))
         ELSE OrphanPass(Tail(keys), vis, lv)

BfsStart(start) ==
    [queue |-> InitialQueue(start), qi |-> 0, visited |-> {}, levels |-> EmptyLevels]

RECURSIVE BfsRun(_, _)
BfsRun(n, b) == IF b.qi < Len(b.queue) THEN BfsRun(n, BfsIter(n, b)) ELSE b

\* The whole call, as the other functions use it.
CalculateNodeLevels(n, start) ==
    LET b == BfsRun(n, BfsStart(start)) IN OrphanPass(ObjectKeys(n), b.visited, b.levels)

(***************************************************************************)
(* JavaScript values and conversions used on levels.                       *)
(* A number is [nan, v]: NaN, or the integer v.  A string is a sequence of *)
(* one-character strings.                                                  *)
(***************************************************************************)
Num(v) == [nan |-> FALSE, v |-> v]

NaN == [nan |-> TRUE, v |-> 0]

\* a * b and a + b on numbers (NaN propagates)
NumTimes(a, b) == IF a.nan \/ b.nan THEN NaN ELSE Num(a.v * b.v)

NumPlus(a, b) == IF a.nan \/ b.nan THEN NaN ELSE Num(a.v + b.v)

Undefined == [t |-> "undefined"]

Null == [t |-> "null"]

StringValue(chars) == [t |-> "string", s |-> chars]

NumberValue(v) == [t |-> "number", n |-> v]

DigitChars == <<"0", "1", "2", "3", "4", "5", "6", "7", "8", "9">>

IsDigit(c) == \E i \in DOMAIN DigitChars : DigitChars[i] = c

DigitValue(c) == (CHOOSE i \in DOMAIN DigitChars : DigitChars[i] = c) - 1

RECURSIVE NatToChars(_)
\* the decimal digits of a natural number
NatToChars(v) ==
    IF v < 10 THEN <<DigitChars[v + 1]>>
    ELSE NatToChars(v \div 10) \o <<DigitChars[(v % 10) + 1]>>

\* String(x) of a number, as used for a property key and by parseInt
NumberToString(x) ==
    IF x.nan THEN <<"N", "a", "N">>
    ELSE IF x.v < 0 THEN <<"-">> \o NatToChars(-x.v)
    ELSE NatToChars(x.v)

RECURSIVE SkipWhiteSpace(_)
SkipWhiteSpace(chars) ==
    IF chars # <<>> /\ Head(chars) = " " THEN SkipWhiteSpace(Tail(chars)) ELSE chars

RECURSIVE LeadingDigits(_)
\* the longest prefix of decimal digits
LeadingDigits(chars) ==
    IF chars # <<>> /\ IsDigit(Head(chars))
    THEN <<Head(chars)>> \o LeadingDigits(Tail(chars))
    ELSE <<>>

RECURSIVE DigitsValue(_, _)
DigitsValue(chars, acc) ==
    IF chars = <<>> THEN acc
    ELSE DigitsValue(Tail(chars), acc * 10 + DigitValue(Head(chars)))

\* parseInt(string) in radix 10: leading white space, an optional sign, the
\* longest prefix of digits; NaN when there is no digit.  (No explored string
\* starts with 0x.)
ParseIntString(chars) ==
    LET t      == SkipWhiteSpace(chars)
        signed == t # <<>> /\ Head(t) \in {"-", "+"}
        body   == IF signed THEN Tail(t) ELSE t
        digits == LeadingDigits(body)
    IN IF digits = <<>> THEN NaN
       ELSE IF signed /\ Head(t) = "-" THEN Num(-DigitsValue(digits, 0))
       ELSE Num(DigitsValue(digits, 0))

\* parseInt(value): the value is converted to a string first
ParseInt(value) ==
    IF value.t = "string" THEN ParseIntString(value.s)
    ELSE IF value.t = "number" THEN ParseIntString(NumberToString(Num(value.n)))
    ELSE NaN

(***************************************************************************)
(* getEffectiveLevel                                                       *)
(***************************************************************************)
\* nodes[nodeId]?.level
LevelOf(n, nodeId) == IF nodeId \in OwnKeys(n) THEN n.level[nodeId] ELSE Undefined

\* Mutant: the override is tested for truthiness, so 0 counts as unset.
HasExplicitLevelTruthy(n, nodeId) ==
    LET v == LevelOf(n, nodeId) IN
    /\ v.t \notin {"undefined", "null"}
    /\ v # StringValue(<<>>)
    /\ v # NumberValue(0)

\* level !== undefined && level !== null && level !== ''
HasExplicitLevel(n, nodeId) ==
    LET v == LevelOf(n, nodeId) IN
    /\ v.t # "undefined"
    /\ v.t # "null"
    /\ v # StringValue(<<>>)

\* an absent levelsMap argument
NoLevelsMap == [given |-> FALSE, map |-> EmptyLevels]

GivenLevelsMap(lv) == [given |-> TRUE, map |-> lv]

\* for (const [level, nodeIds] of Object.entries(levels))
\*     if (nodeIds.includes(nodeId)) return parseInt(level);
\* return 0;
\* Object.entries lists the integer keys in ascending order.
LookupLevel(lv, nodeId) ==
    LET hits == {l \in DOMAIN lv : Includes(lv[l], nodeId)} IN
    IF hits = {} THEN Num(0)
    ELSE ParseIntString(NumberToString(Num(CHOOSE l \in hits : \A m \in hits : l <= m)))

GetEffectiveLevel(nodeId, n, start, levelsMap) ==
    IF HasExplicitLevel(n, nodeId)
    THEN ParseInt(LevelOf(n, nodeId))
    ELSE LookupLevel(IF levelsMap.given THEN levelsMap.map ELSE CalculateNodeLevels(n, start),
                     nodeId)

(***************************************************************************)
(* calculateAutoPositions                                                  *)
(***************************************************************************)
DefaultLevelHeight == 120
DefaultNodeWidth == 140
DefaultNodeHeight == 44
DefaultPadding == 60

DefaultLayout ==
    [levelHeight |-> DefaultLevelHeight, nodeWidth |-> DefaultNodeWidth,
     nodeHeight |-> DefaultNodeHeight, padding |-> DefaultPadding]

NoLayout == [given |-> FALSE, config |-> DefaultLayout]

GivenLayout(c) == [given |-> TRUE, config |-> c]

\* const config = layoutConfig || { ... }
ConfigOf(layoutConfig) == IF layoutConfig.given THEN layoutConfig.config ELSE DefaultLayout

\* Mutant: the group is reset on every node (the guard of the [] is lost).
AddToGroupReset(groups, key, nodeId) ==
    IF \E i \in DOMAIN groups : groups[i].key = key
    THEN [i \in DOMAIN groups |->
            IF groups[i].key = key THEN [groups[i] EXCEPT !.ids = <<nodeId>>] ELSE groups[i]]
    ELSE Append(groups, [key |-> key, ids |-> <<nodeId>>])

\* if (!levelGroups[effectiveLevel]) levelGroups[effectiveLevel] = [];
\* levelGroups[effectiveLevel].push(nodeId);
\* levelGroups is the sequence of its <property key, ids> entries.
AddToGroup(groups, key, nodeId) ==
    IF \E i \in DOMAIN groups : groups[i].key = key
    THEN [i \in DOMAIN groups |->
            IF groups[i].key = key THEN [groups[i] EXCEPT !.ids = Append(@, nodeId)] ELSE groups[i]]
    ELSE Append(groups, [key |-> key, ids |-> <<nodeId>>])

RECURSIVE GroupByLevel(_, _, _, _, _)
\* Object.keys(nodes).forEach(nodeId => { ... })
GroupByLevel(keys, n, start, levelsMap, groups) ==
    IF keys = <<>> THEN groups
    ELSE GroupByLevel(Tail(keys), n, start, levelsMap,
            AddToGroup(groups,
                       NumberToString(GetEffectiveLevel(Head(keys), n, start, levelsMap)),
                       Head(keys)))

\* Math.max(...Object.keys(levelGroups).map(Number), 1)
MaxLevelOf(groups) ==
    LET nums == {ParseIntString(groups[i].key) : i \in DOMAIN groups} IN
    IF \E x \in nums : x.nan THEN NaN
    ELSE LET vals == {x.v : x \in nums} \cup {1} IN
         Num(CHOOSE v \in vals : \A w \in vals : w <= v)

\* maxWidth = Math.max(maxWidth, nodeIds.length * nodeWidth), from 0
MaxWidthOf(groups, nodeWidth) ==
    LET ws == {Len(groups[i].ids) * nodeWidth : i \in DOMAIN groups} \cup {0} IN
    CHOOSE w \in ws : \A u \in ws : u <= w

\* Mutant: the groups are not centred within maxWidth.
StartX2Left(maxWidth, count, nodeWidth) == nodeWidth

\* startX = (maxWidth - totalWidth) / 2 + nodeWidth / 2, kept as 2 * startX
\* (a coordinate may be a half).
StartX2(maxWidth, count, nodeWidth) == (maxWidth - count * nodeWidth) + nodeWidth

\* positions[nodeId] = { x: startX + index * nodeWidth + padding,
\*                       y: parseInt(level) * levelHeight + padding }
\* x2 is 2 * x; index counts from 0.
PositionOf(group, index, maxWidth, config) ==
    [x2 |-> StartX2(maxWidth, Len(group.ids), config.nodeWidth)
              + 2 * (index * config.nodeWidth) + 2 * config.padding,
     y  |-> NumPlus(NumTimes(ParseIntString(group.key), Num(config.levelHeight)),
                    Num(config.padding))]

CalculateAutoPositions(n, start, layoutConfig) ==
    LET config    == ConfigOf(layoutConfig)
        levelsMap == GivenLevelsMap(CalculateNodeLevels(n, start))
        groups    == GroupByLevel(ObjectKeys(n), n, start, levelsMap, <<>>)
        maxWidth  == MaxWidthOf(groups, config.nodeWidth)
        placed    == UNION {Range(groups[g].ids) : g \in DOMAIN groups}
    IN [fn        |-> "calculateAutoPositions",
        positions |-> [id \in placed |->
                         LET g == CHOOSE g \in DOMAIN groups : Includes(groups[g].ids, id)
                             i == CHOOSE i \in DOMAIN groups[g].ids : groups[g].ids[i] = id
                         IN PositionOf(groups[g], i - 1, maxWidth, config)],
        maxWidth  |-> maxWidth,
        maxLevel  |-> MaxLevelOf(groups)]

(***************************************************************************)
(* Inputs: node mappings with at most MaxNodes keys and MaxEdges choices.  *)
(***************************************************************************)
KeySeq(k) == SubSeq(KeyNames, 1, k)

Targets(k) == Range(KeySeq(k)) \cup DanglingIds

NoResult == [fn |-> "none"]

\* The choices of key number i, from an edge list sorted by source.
EdgeChoices(from, to, i) ==
    LET idx == {j \in DOMAIN from : from[j] = i}
        F[j \in 0..Len(from)] ==
            IF j = 0 THEN <<>>
            ELSE IF j \in idx THEN Append(F[j - 1], to[j]) ELSE F[j - 1]
    IN F[Len(from)]

Graph(k, from, to) ==
    [keys    |-> KeySeq(k),
     choices |-> [id \in Range(KeySeq(k)) |->
                    EdgeChoices(from, to, CHOOSE i \in 1..k : KeyNames[i] = id)],
     level   |-> [id \in Range(KeySeq(k)) |-> Undefined]]

\* Edge lists sorted by source: each node mapping is drawn once.
SortedBySource(from) == \A j \in 1..(Len(from) - 1) : from[j] <= from[j + 1]

EdgeCounts(k, maxEdges) == IF k = 0 THEN {0} ELSE 0..maxEdges

(***************************************************************************)
(* The call calculateNodeLevels(nodes, startNode), one loop iteration per  *)
(* step.                                                                   *)
(***************************************************************************)
Init ==
    /\ \E k \in 0..MaxNodes : \E m \in EdgeCounts(k, MaxEdges) :
         \E from \in {f \in [1..m -> 1..k] : SortedBySource(f)} :
         \E to \in [1..m -> Targets(k)] :
            nodes = Graph(k, from, to)
    /\ startNode \in OwnKeys(nodes) \cup DanglingIds
    /\ queue = InitialQueue(startNode)
    /\ qi = 0
    /\ visited = {}
    /\ levels = EmptyLevels
    /\ pc = "bfs"
    /\ call = [fn |-> "calculateNodeLevels"]
    /\ result = NoResult

LoopState == [queue |-> queue, qi |-> qi, visited |-> visited, levels |-> levels]

\* while (qi < queue.length) { ... }
Dequeue ==
    /\ pc = "bfs"
    /\ qi < Len(queue)
    /\ LET b == BfsIter(nodes, LoopState) IN
        /\ queue' = b.queue
        /\ qi' = b.qi
        /\ visited' = b.visited
        /\ levels' = b.levels
    /\ UNCHANGED <<nodes, startNode, pc, call, result>>

\* the orphan pass and  return levels
Orphans ==
    /\ pc = "bfs"
    /\ qi >= Len(queue)
    /\ levels' = OrphanPass(ObjectKeys(nodes), visited, levels)
    /\ pc' = "done"
    /\ UNCHANGED <<nodes, startNode, queue, qi, visited, call, result>>

Next == Dequeue \/ Orphans

Spec == Init /\ [][Next]_vars

FairSpec == Spec /\ WF_vars(Next)

(***************************************************************************)
(* The calls getEffectiveLevel(nodeId, nodes, startNode[, levelsMap]) and  *)
(* calculateAutoPositions(nodes, startNode[, layoutConfig]) on node        *)
(* mappings whose nodes may carry an explicit level.                       *)
(***************************************************************************)
\* number of nodes that carry a level property
MaxOverrides == 1
\* total number of choices of these node mappings
MaxLayoutEdges == 1

\* The level properties explored: null, '', 'abc', '1', -2, 0, 12.
OverrideValues ==
    {Null, StringValue(<<>>), StringValue(<<"a", "b", "c">>), StringValue(<<"1">>),
     NumberValue(-2), NumberValue(0), NumberValue(12)}

\* The layoutConfig arguments explored: none, and two with positive sizes.
LayoutConfigs ==
    {NoLayout,
     GivenLayout([levelHeight |-> 1, nodeWidth |-> 1, nodeHeight |-> 1, padding |-> 0]),
     GivenLayout([levelHeight |-> 2, nodeWidth |-> 3, nodeHeight |-> 4, padding |-> 5])}

WithLevels(n, over) ==
    [n EXCEPT !.level = [id \in OwnKeys(n) |->
                            IF id \in DOMAIN over THEN over[id] ELSE Undefined]]

LayoutInit ==
    /\ \E k \in 0..MaxNodes : \E m \in EdgeCounts(k, MaxLayoutEdges) :
         \E from \in {f \in [1..m -> 1..k] : SortedBySource(f)} :
         \E to \in [1..m -> Range(KeySeq(k))] :
         \E S \in {T \in SUBSET Range(KeySeq(k)) : Cardinality(T) <= MaxOverrides} :
         \E over \in [S -> OverrideValues] :
            nodes = WithLevels(Graph(k, from, to), over)
    /\ startNode \in OwnKeys(nodes) \cup {"ghost"}
    /\ queue = <<>>
    /\ qi = 0
    /\ visited = {}
    /\ levels = EmptyLevels
    /\ pc = "call"
    /\ call = [fn |-> "none"]
    /\ result = NoResult

CallGetEffectiveLevel ==
    /\ pc = "call"
    /\ \E nodeId \in OwnKeys(nodes) \cup {"ghost"} : \E withMap \in BOOLEAN :
        /\ call' = [fn |-> "getEffectiveLevel", nodeId |-> nodeId, withMap |-> withMap]
        /\ result' =
              [fn    |-> "getEffectiveLevel",
               value |-> GetEffectiveLevel(nodeId, nodes, startNode,
                            IF withMap
                            THEN GivenLevelsMap(CalculateNodeLevels(nodes, startNode))
                            ELSE NoLevelsMap)]
    /\ pc' = "returned"
    /\ UNCHANGED <<nodes, startNode, queue, qi, visited, levels>>

CallCalculateAutoPositions ==
    /\ pc = "call"
    /\ \E layoutConfig \in LayoutConfigs :
        /\ call' = [fn |-> "calculateAutoPositions", layoutConfig |-> layoutConfig]
        /\ result' = CalculateAutoPositions(nodes, startNode, layoutConfig)
    /\ pc' = "returned"
    /\ UNCHANGED <<nodes, startNode, queue, qi, visited, levels>>

\* the calls of getEffectiveLevel
LevelNext == CallGetEffectiveLevel

LevelSpec == LayoutInit /\ [][LevelNext]_vars

\* the calls of calculateAutoPositions
LayoutNext == CallCalculateAutoPositions

LayoutSpec == LayoutInit /\ [][LayoutNext]_vars

(***************************************************************************)
(* Reference notions the properties of calculateNodeLevels are stated      *)
(* with.  They are defined on the node mapping alone: sets of keys for     *)
(* distances, sequences of keys for the order of discovery.                *)
(***************************************************************************)
\* the choices of id that point to a key of the mapping
Successors(n, id) == Range(n.choices[id]) \cap OwnKeys(n)

RECURSIVE ReachWithin(_, _, _)
\* the keys reachable from start in at most h hops
ReachWithin(n, start, h) ==
    IF start \notin OwnKeys(n) THEN {}
    ELSE IF h = 0 THEN {start}
    ELSE LET R == ReachWithin(n, start, h - 1) IN
         R \cup UNION {Successors(n, id) : id \in R}

Reachable(n, start) == ReachWithin(n, start, Cardinality(OwnKeys(n)))

\* the shortest-path distance of a reachable key, in hops
Hops(n, start, id) ==
    CHOOSE h \in 0..Cardinality(OwnKeys(n)) :
        /\ id \in ReachWithin(n, start, h)
        /\ \A g \in 0..(h - 1) : id \notin ReachWithin(n, start, g)

\* the level buckets that hold id, as <<level, index>> pairs
Places(lv, id) == {<<l, i>> \in UNION {{l} \X DOMAIN lv[l] : l \in DOMAIN lv} : lv[l][i] = id}

Bucketed(lv) == UNION {Range(lv[l]) : l \in DOMAIN lv}

RECURSIVE FirstOccurrences(_, _)
\* s without the elements of seen and without repetitions
FirstOccurrences(s, seen) ==
    IF s = <<>> THEN <<>>
    ELSE IF Head(s) \in seen THEN FirstOccurrences(Tail(s), seen)
    ELSE <<Head(s)>> \o FirstOccurrences(Tail(s), seen \cup {Head(s)})

RECURSIVE ChildrenInOrder(_, _)
\* the choices of the parents, parent by parent, each in choice order
ChildrenInOrder(n, parents) ==
    IF parents = <<>> THEN <<>>
    ELSE n.choices[Head(parents)] \o ChildrenInOrder(n, Tail(parents))

RECURSIVE Layer(_, _, _)
\* the keys first discovered at level k, in discovery order
Layer(n, start, k) ==
    IF k = 1 THEN (IF start \in OwnKeys(n) THEN <<start>> ELSE <<>>)
    ELSE LET prev == Layer(n, start, k - 1)
             seen == ReachWithin(n, start, k - 2)
         IN FirstOccurrences(SelectSeqBy(ChildrenInOrder(n, prev), OwnKeys(n)), seen)

\* the choices whose target is not a key of the mapping
IsDangling(n, next) == next \notin OwnKeys(n)

\* the node mapping without its dangling choices
Pruned(n) ==
    [n EXCEPT !.choices = [id \in OwnKeys(n) |-> SelectSeqBy(n.choices[id], OwnKeys(n))]]

DanglingTargets(n) ==
    {t \in UNION {Range(n.choices[id]) : id \in OwnKeys(n)} : IsDangling(n, t)}

Returned == pc = "done"

(***************************************************************************)
(* Properties of calculateNodeLevels                                       *)
(***************************************************************************)
\* C1: in the returned level map every key of the node mapping is in exactly
\* one bucket, exactly once, and no bucket holds an id that is not a key of
\* the mapping.
C1_Partition ==
    Returned =>
        /\ \A id \in OwnKeys(nodes) : Cardinality(Places(levels, id)) = 1
        /\ Bucketed(levels) \subseteq OwnKeys(nodes)

\* The part of C1 the code keeps: every key of the mapping is in exactly one
\* bucket, exactly once.
KeysPartitioned ==
    Returned => \A id \in OwnKeys(nodes) : Cardinality(Places(levels, id)) = 1

\* C2: when startNode is a key of the mapping, every key reachable from it is
\* in the bucket numbered (shortest distance in hops) + 1, startNode in
\* bucket 1.  Hops reads the choices as sets, so the order of sibling choices
\* cannot change a level number.
C2_ShortestPath ==
    (Returned /\ startNode \in OwnKeys(nodes)) =>
        \A id \in Reachable(nodes, startNode) :
            LET l == Hops(nodes, startNode, id) + 1 IN
            /\ l \in DOMAIN levels
            /\ Includes(levels[l], id)
            /\ (id = startNode => l = 1)

\* C2 witness: a returned call from a key of the mapping in which a key was
\* enqueued by two parents with different levels and sits in the bucket of
\* the smaller one.
C2_Witness ==
    /\ Returned
    /\ startNode \in OwnKeys(nodes)
    /\ \E i, j \in DOMAIN queue :
          /\ queue[i].id \in OwnKeys(nodes)
          /\ queue[i].id = queue[j].id
          /\ queue[i].level < queue[j].level
          /\ Includes(levels[queue[i].level], queue[i].id)

\* C3: the loop of calculateNodeLevels reaches the end of its queue and the
\* call returns, on every node mapping (self-loops and cycles included).
C3_Terminates == <>Returned

\* C3 witness: a returned call on a graph with a self-loop and a cycle
\* through two nodes, all of them visited.
C3_Witness ==
    /\ Returned
    /\ qi = Len(queue)
    /\ \E a, b \in visited \cap OwnKeys(nodes) :
          /\ a # b
          /\ a \in Successors(nodes, a)
          /\ b \in Successors(nodes, a)
          /\ a \in Successors(nodes, b)

\* C8: with a startNode that is not a key of the mapping, no bucket of level
\* >= 1 exists and the level-0 bucket holds every key; with an empty mapping
\* the level map is empty.
C8_AllOrphans ==
    (Returned /\ startNode \notin OwnKeys(nodes)) =>
        /\ DOMAIN levels \subseteq {0}
        /\ OwnKeys(nodes) # {} => (0 \in DOMAIN levels /\ Range(levels[0]) = OwnKeys(nodes))
        /\ OwnKeys(nodes) = {} => levels = EmptyLevels

\* C9: the target of a dangling choice is in no bucket, and the level map is
\* the one of the same mapping without its dangling choices.  Stated for a
\* startNode that is a key of the mapping, so that only a choice can bring an
\* absent id in.
C9_DanglingIgnored ==
    (Returned /\ startNode \in OwnKeys(nodes)) =>
        /\ DanglingTargets(nodes) \cap Bucketed(levels) = {}
        /\ levels = CalculateNodeLevels(Pruned(nodes), startNode)

\* C10: the keys of every bucket of level >= 1 are in discovery order (the
\* parents in the order of their own bucket, the children of one parent in
\* choice order, first discovery kept); the keys of bucket 0 are in the
\* iteration order of the mapping.
C10_DiscoveryOrder ==
    Returned =>
        /\ \A l \in DOMAIN levels \ {0} :
              SelectSeqBy(levels[l], OwnKeys(nodes)) = Layer(nodes, startNode, l)
        /\ \A l \in 1..(MaxNodes + 1) :
              Layer(nodes, startNode, l) # <<>> => l \in DOMAIN levels
        /\ 0 \in DOMAIN levels =>
              levels[0] = SelectSeqBy(ObjectKeys(nodes),
                                      OwnKeys(nodes) \ Reachable(nodes, startNode))

\* C10 witness: a bucket of level >= 1 whose two keys were discovered in the
\* reverse of the mapping order.
C10_Witness ==
    /\ Returned
    /\ \E l \in DOMAIN levels \ {0} : levels[l] = <<"C", "B">>

(***************************************************************************)
(* Properties of getEffectiveLevel and calculateAutoPositions              *)
(***************************************************************************)
\* the level calculateNodeLevels is to give a key: hops + 1, 0 for an orphan
ComputedLevel(n, start, id) ==
    IF id \in Reachable(n, start) THEN Hops(n, start, id) + 1 ELSE 0

\* the level properties that hold an integer, and the integer held
HoldsInteger(v) == v.t = "number" \/ v = StringValue(<<"1">>)

IntegerHeld(v) == IF v.t = "number" THEN v.n ELSE 1

\* the level properties that are empty or not numeric
EmptyOrNonNumeric(v) ==
    v \in {Undefined, Null, StringValue(<<>>), StringValue(<<"a", "b", "c">>)}

\* the effective level of a key whose level property is unset or an integer
ExpectedLevel(n, start, id) ==
    IF HoldsInteger(n.level[id]) THEN IntegerHeld(n.level[id])
    ELSE ComputedLevel(n, start, id)

GotEffectiveLevel == pc = "returned" /\ result.fn = "getEffectiveLevel"

GotPositions == pc = "returned" /\ result.fn = "calculateAutoPositions"

\* C4: for a node whose level property holds an integer, getEffectiveLevel
\* returns that integer, whatever the node's computed level and whether or
\* not a level map is passed.
C4_ExplicitLevelWins ==
    GotEffectiveLevel =>
        LET v == LevelOf(nodes, call.nodeId) IN
        HoldsInteger(v) => result.value = Num(IntegerHeld(v))

\* C4 witness: a call with a level map on a node two levels deep whose level
\* property is -2.
C4_Witness ==
    /\ GotEffectiveLevel
    /\ call.withMap
    /\ call.nodeId \in OwnKeys(nodes)
    /\ LevelOf(nodes, call.nodeId) = NumberValue(-2)
    /\ ComputedLevel(nodes, startNode, call.nodeId) = 2
    /\ result.value = Num(-2)

\* C5: for a node whose level property is absent, null, '' or not numeric
\* ('abc'), getEffectiveLevel returns the node's computed level (0 for an
\* orphan).
C5_UnsetFallsThrough ==
    GotEffectiveLevel =>
        LET v == LevelOf(nodes, call.nodeId) IN
        EmptyOrNonNumeric(v) =>
            result.value =
                Num(IF call.nodeId \in OwnKeys(nodes)
                    THEN ComputedLevel(nodes, startNode, call.nodeId) ELSE 0)

\* The part of C5 the code keeps: an absent, null or '' level property falls
\* through to the computed level.
UnsetFallsThrough ==
    GotEffectiveLevel =>
        LET v == LevelOf(nodes, call.nodeId) IN
        v \in {Undefined, Null, StringValue(<<>>)} =>
            result.value =
                Num(IF call.nodeId \in OwnKeys(nodes)
                    THEN ComputedLevel(nodes, startNode, call.nodeId) ELSE 0)

IntegerLevels(n) == \A id \in OwnKeys(n) : n.level[id] # StringValue(<<"a", "b", "c">>)

PositiveSizes(config) == config.nodeWidth > 0 /\ config.levelHeight > 0

RECURSIVE ExpectedLevels(_, _, _)
\* the expected effective level of each of the keys
ExpectedLevels(keys, n, start) ==
    IF keys = <<>> THEN <<>>
    ELSE <<ExpectedLevel(n, start, Head(keys))>> \o ExpectedLevels(Tail(keys), n, start)

\* C6: with integer effective levels and positive nodeWidth and levelHeight,
\* every key of the mapping has a position, two keys of the same effective
\* level have different x, and the key of the greater effective level has the
\* strictly greater y (equal y only for equal levels).
C6_PositionsSeparate ==
    (GotPositions /\ IntegerLevels(nodes) /\ PositiveSizes(ConfigOf(call.layoutConfig))) =>
        LET keys == ObjectKeys(nodes)
            lvl  == ExpectedLevels(keys, nodes, startNode)
        IN
        /\ DOMAIN result.positions = OwnKeys(nodes)
        /\ \A i, j \in DOMAIN keys :
              LET pa == result.positions[keys[i]]
                  pb == result.positions[keys[j]]
              IN /\ ~pa.y.nan
                 /\ (i # j /\ lvl[i] = lvl[j]) => pa.x2 # pb.x2
                 /\ lvl[i] > lvl[j] => pa.y.v > pb.y.v
                 /\ lvl[i] = lvl[j] => pa.y.v = pb.y.v

\* C6 witness: three keys placed, two of them on one effective level and the
\* third, by its level property, on a lower one.
C6_Witness ==
    /\ GotPositions
    /\ IntegerLevels(nodes)
    /\ \E a, b, c \in OwnKeys(nodes) :
          /\ a # b
          /\ ExpectedLevel(nodes, startNode, a) = ExpectedLevel(nodes, startNode, b)
          /\ nodes.level[c] = NumberValue(-2)
          /\ result.positions[a].x2 # result.positions[b].x2
          /\ result.positions[c].y.v < result.positions[a].y.v

RECURSIVE EffectiveLevels(_, _, _)
\* what getEffectiveLevel returns for each of the keys, without a level map
EffectiveLevels(keys, n, start) ==
    IF keys = <<>> THEN <<>>
    ELSE <<GetEffectiveLevel(Head(keys), n, start, NoLevelsMap)>>
            \o EffectiveLevels(Tail(keys), n, start)

\* the place of key k in the mapping order
KeyIndex(n, k) == CHOOSE j \in DOMAIN ObjectKeys(n) : ObjectKeys(n)[j] = k

\* the keys whose effective level (eff, by place in the mapping order) is
\* that of id, in mapping order
SameLevelKeys(n, eff, id) ==
    SelectSeqBy(ObjectKeys(n), {k \in OwnKeys(n) : eff[KeyIndex(n, k)] = eff[KeyIndex(n, id)]})

\* C7: the keys are grouped by effective level in mapping order; maxWidth is
\* the size of the largest group times nodeWidth; the key at index i of a
\* group of count keys at level L has
\*   x = (maxWidth - count*nodeWidth)/2 + nodeWidth/2 + i*nodeWidth + padding
\*   y = L*levelHeight + padding
\* (x is compared doubled).  The effective levels are those getEffectiveLevel
\* returns, key by key, without a level map.
C7_CentredGroups ==
    GotPositions =>
        LET config == ConfigOf(call.layoutConfig)
            eff    == EffectiveLevels(ObjectKeys(nodes), nodes, startNode)
            sizes  == {Len(SameLevelKeys(nodes, eff, id)) : id \in OwnKeys(nodes)} \cup {0}
            widest == CHOOSE c \in sizes : \A d \in sizes : d <= c
        IN
        /\ result.maxWidth = widest * config.nodeWidth
        /\ \A id \in OwnKeys(nodes) :
              LET group == SameLevelKeys(nodes, eff, id)
                  count == Len(group)
                  i     == (CHOOSE j \in DOMAIN group : group[j] = id) - 1
              IN /\ id \in DOMAIN result.positions
                 /\ result.positions[id].x2 =
                        (result.maxWidth - count * config.nodeWidth) + config.nodeWidth
                        + 2 * i * config.nodeWidth + 2 * config.padding
                 /\ result.positions[id].y =
                        NumPlus(NumTimes(eff[KeyIndex(nodes, id)], Num(config.levelHeight)),
                                Num(config.padding))

\* C7 witness: startNode is the second key and the first key is pinned to
\* its level by a level property, so the group of level 1 is in mapping
\* order, not discovery order; the third key is alone on level 0 and is
\* centred under them.
C7_Witness ==
    /\ GotPositions
    /\ ObjectKeys(nodes) = <<"A", "B", "C">>
    /\ startNode = "B"
    /\ nodes.level["A"] = StringValue(<<"1">>)
    /\ call.layoutConfig.given
    /\ result.positions["A"].x2 < result.positions["B"].x2
    /\ 2 * result.positions["C"].x2 = result.positions["A"].x2 + result.positions["B"].x2
    /\ result.positions["C"].y.v < result.positions["A"].y.v

(***************************************************************************)
(* Numbers of the connection geometry.  The pixel arithmetic of            *)
(* getConnectionPath and getArrowPosition divides by 2 and multiplies by   *)
(* 0.3, 1.5, 0.25 and 0.5: a number is held as the exact fraction          *)
(* [n, d] in lowest terms with d > 0.                                      *)
(***************************************************************************)
RECURSIVE GCD(_, _)
GCD(a, b) == IF b = 0 THEN a ELSE GCD(b, a % b)

AbsInt(i) == IF i < 0 THEN -i ELSE i

Frac(n, d) ==
    LET g == GCD(AbsInt(n), AbsInt(d))
        s == IF d < 0 THEN -1 ELSE 1
    IN [n |-> (s * n) \div g, d |-> (s * d) \div g]

FracInt(i) == [n |-> i, d |-> 1]

FracPlus(a, b) == Frac(a.n * b.d + b.n * a.d, a.d * b.d)

FracMinus(a, b) == Frac(a.n * b.d - b.n * a.d, a.d * b.d)

FracTimes(a, b) == Frac(a.n * b.n, a.d * b.d)

FracDiv(a, b) == Frac(a.n * b.d, a.d * b.n)

FracLess(a, b) == a.n * b.d < b.n * a.d

FracLeq(a, b) == a.n * b.d <= b.n * a.d

\* Math.max, Math.min, Math.abs
FracMax(a, b) == IF FracLess(a, b) THEN b ELSE a

FracMin(a, b) == IF FracLess(b, a) THEN b ELSE a

FracAbs(a) == [n |-> AbsInt(a.n), d |-> a.d]

(***************************************************************************)
(* getConnectionPath                                                       *)
(***************************************************************************)
\* Math.max(80, Math.abs(conn.from.y - conn.to.y) * 0.3 + 60)
MinLoopOffset == 80
LoopBaseOffset == 60
\* : 50
SameLevelOffset == 50
\* Math.min(y1, y2) - 30
BackwardLift == 30

\* Mutant: only a loop is curved, a same-level connection is a straight line.
IsForwardNotLoop(conn) == ~conn.isLoop

\* !conn.isLoop && !conn.isSameLevel
IsForward(conn) == ~conn.isLoop /\ ~conn.isSameLevel

\* Mutant: the control point is lifted for a loop, not for a connection that
\* goes up on the screen.
VisuallyBackwardByLoop(conn) == conn.isLoop

\* conn.to.y < conn.from.y
VisuallyBackward(conn) == FracLess(conn.to.y, conn.from.y)

\* conn.isLoop ? Math.max(80, Math.abs(conn.from.y - conn.to.y) * 0.3 + 60) : 50
CurveOffset(conn) ==
    IF conn.isLoop
    THEN FracMax(FracInt(MinLoopOffset),
                 FracPlus(FracTimes(FracAbs(FracMinus(conn.from.y, conn.to.y)), Frac(3, 10)),
                          FracInt(LoopBaseOffset)))
    ELSE FracInt(SameLevelOffset)

\* x1 <= x2 ? 1 : -1
CurveDirection(x1, x2) == IF FracLeq(x1, x2) THEN FracInt(1) ELSE FracInt(-1)

\* The path string 'M x1 y1 L x2 y2' or 'M x1 y1 Q cx cy x2 y2' is held as
\* its drawing command and the numbers written after the M.
GetConnectionPath(conn, nodeHeight) ==
    LET x1 == conn.from.x
        y1 == FracPlus(conn.from.y, FracDiv(nodeHeight, FracInt(2)))
        x2 == conn.to.x
        y2 == FracMinus(conn.to.y, FracDiv(nodeHeight, FracInt(2)))
    IN
    IF IsForward(conn)
    THEN [path |-> [cmd |-> "L", args |-> <<x1, y1, x2, y2>>],
          type |-> "line", x1 |-> x1, y1 |-> y1, x2 |-> x2, y2 |-> y2]
    ELSE LET midX     == FracDiv(FracPlus(x1, x2), FracInt(2))
             midY     == FracDiv(FracPlus(y1, y2), FracInt(2))
             controlX == FracPlus(midX,
                            FracTimes(FracTimes(CurveOffset(conn), CurveDirection(x1, x2)),
                                      IF conn.isLoop THEN Frac(3, 2) ELSE FracInt(1)))
             controlY == IF VisuallyBackward(conn)
                         THEN FracMinus(FracMin(y1, y2), FracInt(BackwardLift))
                         ELSE midY
         IN [path |-> [cmd |-> "Q", args |-> <<x1, y1, controlX, controlY, x2, y2>>],
             type |-> "bezier", x1 |-> x1, y1 |-> y1, x2 |-> x2, y2 |-> y2,
             cx |-> controlX, cy |-> controlY]

(***************************************************************************)
(* getArrowPosition                                                        *)
(***************************************************************************)
\* Math.atan2(y, x) * 180 / Math.PI.  The angle is held by the direction it
\* points to, dir = <<dy, dx>> in lowest terms (atan2(0, 0) is 0, the angle
\* of <<0, 1>>), and by its number of degrees when that is a multiple of 45.
Atan2Degrees(y, x) ==
    LET Y == y.n * x.d
        X == x.n * y.d
        g == GCD(AbsInt(Y), AbsInt(X))
        dir == IF g = 0 THEN <<0, 1>> ELSE <<Y \div g, X \div g>>
    IN CASE dir = <<0, 1>>   -> [dir |-> dir, exact |-> TRUE, deg |-> 0]
         [] dir = <<1, 1>>   -> [dir |-> dir, exact |-> TRUE, deg |-> 45]
         [] dir = <<1, 0>>   -> [dir |-> dir, exact |-> TRUE, deg |-> 90]
         [] dir = <<1, -1>>  -> [dir |-> dir, exact |-> TRUE, deg |-> 135]
         [] dir = <<0, -1>>  -> [dir |-> dir, exact |-> TRUE, deg |-> 180]
         [] dir = <<-1, -1>> -> [dir |-> dir, exact |-> TRUE, deg |-> -135]
         [] dir = <<-1, 0>>  -> [dir |-> dir, exact |-> TRUE, deg |-> -90]
         [] dir = <<-1, 1>>  -> [dir |-> dir, exact |-> TRUE, deg |-> -45]
         [] OTHER            -> [dir |-> dir, exact |-> FALSE, deg |-> 0]

\* var t = 0.5
ArrowT == Frac(1, 2)

\* Mutant: the arrow sits on the chord, halfway between the anchors.
ChordPoint(t, p0, c, p1) ==
    FracPlus(FracTimes(FracMinus(FracInt(1), t), p0), FracTimes(t, p1))

\* (1 - t) * (1 - t) * p0 + 2 * (1 - t) * t * c + t * t * p1
BezierPoint(t, p0, c, p1) ==
    LET u == FracMinus(FracInt(1), t) IN
    FracPlus(FracPlus(FracTimes(FracTimes(u, u), p0),
                      FracTimes(FracTimes(FracTimes(FracInt(2), u), t), c)),
             FracTimes(FracTimes(t, t), p1))

\* Mutant: the tangent is taken at the start of the curve (t = 0).
BezierTangentAtStart(t, p0, c, p1) ==
    FracTimes(FracInt(2), FracMinus(c, p0))

\* 2 * (1 - t) * (c - p0) + 2 * t * (p1 - c)
BezierTangent(t, p0, c, p1) ==
    LET u == FracMinus(FracInt(1), t) IN
    FracPlus(FracTimes(FracTimes(FracInt(2), u), FracMinus(c, p0)),
             FracTimes(FracTimes(FracInt(2), t), FracMinus(p1, c)))

\* the vector handed to Math.atan2, as <<tx, ty>>
ArrowTangent(pathData) ==
    IF pathData.type = "line"
    THEN <<FracMinus(pathData.x2, pathData.x1), FracMinus(pathData.y2, pathData.y1)>>
    ELSE <<BezierTangent(ArrowT, pathData.x1, pathData.cx, pathData.x2),
           BezierTangent(ArrowT, pathData.y1, pathData.cy, pathData.y2)>>

GetArrowPosition(pathData) ==
    LET tan == ArrowTangent(pathData) IN
    IF pathData.type = "line"
    THEN [x     |-> FracDiv(FracPlus(pathData.x1, pathData.x2), FracInt(2)),
          y     |-> FracDiv(FracPlus(pathData.y1, pathData.y2), FracInt(2)),
          angle |-> Atan2Degrees(tan[2], tan[1])]
    ELSE [x     |-> BezierPoint(ArrowT, pathData.x1, pathData.cx, pathData.x2),
          y     |-> BezierPoint(ArrowT, pathData.y1, pathData.cy, pathData.y2),
          angle |-> Atan2Degrees(tan[2], tan[1])]

(***************************************************************************)
(* The calls getConnectionPath(conn, nodeHeight) and getArrowPosition,     *)
(* the latter on the path just built or on path data of the caller.        *)
(***************************************************************************)
\* the pixel coordinates explored are 0, 50, .., 50 * MaxStep and 220
MaxStep == 2

Coords == {FracInt(50 * i) : i \in 0..MaxStep} \cup {FracInt(220)}

\* an even and an odd node height (the anchors of the latter are halves)
NodeHeights == {FracInt(DefaultNodeHeight), FracInt(DefaultNodeHeight + 1)}

PathInit ==
    /\ nodes = Graph(0, <<>>, <<>>)
    /\ startNode = ""
    /\ queue = <<>>
    /\ qi = 0
    /\ visited = {}
    /\ levels = EmptyLevels
    /\ pc = "call"
    /\ \E fx, fy, tx, ty \in Coords : \E isLoop, isSameLevel \in BOOLEAN :
       \E nodeHeight \in NodeHeights :
          call = [fn         |-> "getConnectionPath",
                  conn       |-> [from |-> [x |-> fx, y |-> fy], to |-> [x |-> tx, y |-> ty],
                                  isLoop |-> isLoop, isSameLevel |-> isSameLevel],
                  nodeHeight |-> nodeHeight]
    /\ result = NoResult

CallGetConnectionPath ==
    /\ pc = "call"
    /\ result' = [fn |-> "getConnectionPath",
                  value |-> GetConnectionPath(call.conn, call.nodeHeight)]
    /\ pc' = "path"
    /\ UNCHANGED <<nodes, startNode, queue, qi, visited, levels, call>>

\* getArrowPosition(getConnectionPath(conn, nodeHeight))
CallGetArrowPosition ==
    /\ pc = "path"
    /\ call' = [fn |-> "getArrowPosition", conn |-> call.conn,
                nodeHeight |-> call.nodeHeight, pathData |-> result.value]
    /\ result' = [fn |-> "getArrowPosition", value |-> GetArrowPosition(result.value)]
    /\ pc' = "returned"
    /\ UNCHANGED <<nodes, startNode, queue, qi, visited, levels>>

\* getArrowPosition on path data of the caller: the anchors are the two
\* points of conn, the control point is any point.
CallGetArrowPositionOn ==
    /\ pc = "call"
    /\ \E cx, cy \in Coords :
         LET pathData == [type |-> "bezier",
                          x1 |-> call.conn.from.x, y1 |-> call.conn.from.y,
                          x2 |-> call.conn.to.x, y2 |-> call.conn.to.y,
                          cx |-> cx, cy |-> cy]
         IN /\ call' = [fn |-> "getArrowPosition", conn |-> call.conn,
                        nodeHeight |-> call.nodeHeight, pathData |-> pathData]
            /\ result' = [fn |-> "getArrowPosition", value |-> GetArrowPosition(pathData)]
    /\ pc' = "returned"
    /\ UNCHANGED <<nodes, startNode, queue, qi, visited, levels>>

PathNext == CallGetConnectionPath \/ CallGetArrowPosition \/ CallGetArrowPositionOn

PathSpec == PathInit /\ [][PathNext]_vars

(***************************************************************************)
(* Properties of getConnectionPath and getArrowPosition                    *)
(***************************************************************************)
GotPath == pc = "path" /\ result.fn = "getConnectionPath"

\* the arrow of the path that getConnectionPath built for call.conn
GotArrowOfPath ==
    /\ pc = "returned"
    /\ result.fn = "getArrowPosition"
    /\ call.pathData = GetConnectionPath(call.conn, call.nodeHeight)

GotArrow == pc = "returned" /\ result.fn = "getArrowPosition"

Half(a) == FracDiv(a, FracInt(2))

\* C11: the path is a 'line' without control point exactly when the
\* connection is neither isLoop nor isSameLevel, and a 'bezier' with a
\* control point otherwise; in both cases it runs from
\* (from.x, from.y + nodeHeight/2) to (to.x, to.y - nodeHeight/2).
C11_LineOrBezier ==
    GotPath =>
        LET p    == result.value
            conn == call.conn
        IN
        /\ p.type \in {"line", "bezier"}
        /\ p.type = "line" <=> (~conn.isLoop /\ ~conn.isSameLevel)
        /\ p.type = "line" => ({"cx", "cy"} \cap DOMAIN p = {} /\ p.path.cmd = "L")
        /\ p.type = "bezier" => ({"cx", "cy"} \subseteq DOMAIN p /\ p.path.cmd = "Q")
        /\ p.x1 = conn.from.x
        /\ p.y1 = FracPlus(conn.from.y, Half(call.nodeHeight))
        /\ p.x2 = conn.to.x
        /\ p.y2 = FracMinus(conn.to.y, Half(call.nodeHeight))

\* C11 witness: a same-level connection that is not a loop, between two
\* points one above the other, returned as a curve.
C11_Witness ==
    /\ GotPath
    /\ ~call.conn.isLoop
    /\ call.conn.isSameLevel
    /\ call.conn.from.x = call.conn.to.x
    /\ FracLess(call.conn.from.y, call.conn.to.y)
    /\ result.value.type = "bezier"
    /\ result.value.cx # result.value.x1

\* the same connection with other classification flags
Reclassified(conn, isLoop, isSameLevel) ==
    [conn EXCEPT !.isLoop = isLoop, !.isSameLevel = isSameLevel]

\* C12: on a curved path, cx is the midpoint x of the anchors plus
\* direction * offset, direction +1 when x1 <= x2 and -1 otherwise, offset
\* 1.5 * max(80, 0.3 * |from.y - to.y| + 60) for a loop and 50 for a
\* same-level connection that is no loop; cy is min(y1, y2) - 30 when
\* to.y < from.y and the midpoint y of the anchors otherwise.  cy is the same
\* under every classification that gives a curve, and cx is the same for
\* either value of isSameLevel.
C12_ControlPoint ==
    (GotPath /\ result.value.type = "bezier") =>
        LET p         == result.value
            conn      == call.conn
            dy        == FracAbs(FracMinus(conn.from.y, conn.to.y))
            offset    == IF conn.isLoop
                         THEN FracTimes(Frac(3, 2),
                                  FracMax(FracInt(80),
                                          FracPlus(FracTimes(Frac(3, 10), dy), FracInt(60))))
                         ELSE FracInt(50)
            direction == IF FracLeq(p.x1, p.x2) THEN FracInt(1) ELSE FracInt(-1)
        IN
        /\ p.cx = FracPlus(Half(FracPlus(p.x1, p.x2)), FracTimes(direction, offset))
        /\ p.cy = IF FracLess(conn.to.y, conn.from.y)
                  THEN FracMinus(FracMin(p.y1, p.y2), FracInt(30))
                  ELSE Half(FracPlus(p.y1, p.y2))
        /\ \A l, s \in BOOLEAN :
              (l \/ s) =>
                  GetConnectionPath(Reclassified(conn, l, s), call.nodeHeight).cy = p.cy
        /\ conn.isLoop =>
              \A s \in BOOLEAN :
                  GetConnectionPath(Reclassified(conn, TRUE, s), call.nodeHeight).cx = p.cx

\* C12 witness: a loop that goes down on the screen and to the left, 100
\* pixels high: the control point is 1.5 * 90 left of the midpoint and at the
\* height of the midpoint.
C12_Witness ==
    /\ GotPath
    /\ call.conn.isLoop
    /\ call.conn.from = [x |-> FracInt(100), y |-> FracInt(0)]
    /\ call.conn.to = [x |-> FracInt(0), y |-> FracInt(100)]
    /\ result.value.cx = FracInt(-85)
    /\ result.value.cy = FracInt(50)

Quarter(a) == FracDiv(a, FracInt(4))

Twice(a) == FracTimes(FracInt(2), a)

\* the connection of the worked example: centres (100, 100) and (100, 220),
\* nodeHeight 44, neither loop nor same-level
ExampleCall ==
    /\ call.conn.from = [x |-> FracInt(100), y |-> FracInt(100)]
    /\ call.conn.to = [x |-> FracInt(100), y |-> FracInt(220)]
    /\ call.nodeHeight = FracInt(44)
    /\ ~call.conn.isLoop
    /\ ~call.conn.isSameLevel

\* C13: the arrow of the path built for a connection is, for a 'line', the
\* midpoint ((x1 + x2)/2, (y1 + y2)/2) of the path's anchors and, for a
\* 'bezier', the curve point at t = 0.5, ((x1 + 2cx + x2)/4, (y1 + 2cy + y2)/4),
\* of the path's anchors and control point.  Centres (100, 100) and
\* (100, 220) with nodeHeight 44 give anchors (100, 122) and (100, 198) and
\* the arrow (100, 160) at 90 degrees.
C13_RoundTrip ==
    GotArrowOfPath =>
        LET p == call.pathData
            a == result.value
        IN
        /\ p.type = "line" =>
              /\ a.x = Half(FracPlus(p.x1, p.x2))
              /\ a.y = Half(FracPlus(p.y1, p.y2))
        /\ p.type = "bezier" =>
              /\ a.x = Quarter(FracPlus(FracPlus(p.x1, Twice(p.cx)), p.x2))
              /\ a.y = Quarter(FracPlus(FracPlus(p.y1, Twice(p.cy)), p.y2))
        /\ ExampleCall =>
              /\ <<p.x1, p.y1>> = <<FracInt(100), FracInt(122)>>
              /\ <<p.x2, p.y2>> = <<FracInt(100), FracInt(198)>>
              /\ <<a.x, a.y>> = <<FracInt(100), FracInt(160)>>
              /\ a.angle.exact
              /\ a.angle.deg = 90

\* C13 witness: the arrow of the worked example.
C13_Witness ==
    /\ GotArrowOfPath
    /\ ExampleCall
    /\ call.pathData.type = "line"
    /\ result.value.y = FracInt(160)

\* a curved path whose arrow is off the chord between its anchors
C13_CurveReached ==
    /\ GotArrowOfPath
    /\ call.pathData.type = "bezier"
    /\ result.value.x # Half(FracPlus(call.pathData.x1, call.pathData.x2))

\* the straight path between the anchors of pathData
ChordOf(pathData) ==
    [type |-> "line", x1 |-> pathData.x1, y1 |-> pathData.y1,
     x2 |-> pathData.x2, y2 |-> pathData.y2]

\* C16: on a 'bezier' path the vector getArrowPosition hands to atan2 is
\* (x2 - x1, y2 - y1), whatever the control point, so the angle is the one
\* getArrowPosition gives for the straight line between the same anchors;
\* the control point moves only the arrow's position.
C16_TangentIsChord ==
    (GotArrow /\ call.pathData.type = "bezier") =>
        LET p == call.pathData IN
        /\ ArrowTangent(p) = <<FracMinus(p.x2, p.x1), FracMinus(p.y2, p.y1)>>
        /\ result.value.angle = GetArrowPosition(ChordOf(p)).angle
        /\ (result.value.x = GetArrowPosition(ChordOf(p)).x
              <=> Twice(p.cx) = FracPlus(p.x1, p.x2))

\* C16 witness: a curve from (0, 0) to (100, 100) with its control point at
\* (220, 0): the arrow is off the chord and points along it, at 45 degrees.
C16_Witness ==
    /\ GotArrow
    /\ call.pathData.type = "bezier"
    /\ <<call.pathData.x1, call.pathData.y1>> = <<FracInt(0), FracInt(0)>>
    /\ <<call.pathData.x2, call.pathData.y2>> = <<FracInt(100), FracInt(100)>>
    /\ <<call.pathData.cx, call.pathData.cy>> = <<FracInt(220), FracInt(0)>>
    /\ result.value.x # result.value.y
    /\ result.value.angle.exact
    /\ result.value.angle.deg = 45

(***************************************************************************)
(* sanitizeUrl.  A string is the sequence of its characters.               *)
(***************************************************************************)
\* the white space String.prototype.trim removes (the characters explored)
IsWhiteSpace(c) == c \in {" ", "\t", "\n"}

RECURSIVE TrimStart(_)
TrimStart(chars) ==
    IF chars # <<>> /\ IsWhiteSpace(Head(chars)) THEN TrimStart(Tail(chars)) ELSE chars

RECURSIVE TrimEnd(_)
TrimEnd(chars) ==
    IF chars # <<>> /\ IsWhiteSpace(chars[Len(chars)])
    THEN TrimEnd(SubSeq(chars, 1, Len(chars) - 1))
    ELSE chars

\* url.trim()
Trim(chars) == TrimEnd(TrimStart(chars))

UpperCaseChars == <<"A", "B", "C", "D", "E", "F", "G", "H", "I", "J", "K", "L", "M", "N", "O", "P", "Q", "R", "S", "T", "U", "V", "W", "X", "Y", "Z">>

LowerCaseChars == <<"a", "b", "c", "d", "e", "f", "g", "h", "i", "j", "k", "l", "m", "n", "o", "p", "q", "r", "s", "t", "u", "v", "w", "x", "y", "z">>

LowerChar(c) ==
    IF \E i \in DOMAIN UpperCaseChars : UpperCaseChars[i] = c
    THEN LowerCaseChars[CHOOSE i \in DOMAIN UpperCaseChars : UpperCaseChars[i] = c]
    ELSE c

\* trimmed.toLowerCase()
ToLowerCase(chars) == [i \in DOMAIN chars |-> LowerChar(chars[i])]

\* String.prototype.startsWith
StartsWith(chars, prefix) ==
    Len(prefix) <= Len(chars) /\ SubSeq(chars, 1, Len(prefix)) = prefix

JavascriptScheme == <<"j", "a", "v", "a", "s", "c", "r", "i", "p", "t", ":">>

DataScheme == <<"d", "a", "t", "a", ":">>

DataImagePrefix == <<"d", "a", "t", "a", ":", "i", "m", "a", "g", "e", "/">>

\* the prefixes of the allow list, compared with the case of the input
AllowedPrefixes ==
    {<<"h", "t", "t", "p", ":", "/", "/">>,
     <<"h", "t", "t", "p", "s", ":", "/", "/">>,
     <<"m", "a", "i", "l", "t", "o", ":">>,
     <<"t", "e", "l", ":">>,
     <<"/">>,
     <<".", "/">>,
     <<".", ".", "/">>}

EmptyString == <<>>

\* trimmed.startsWith('http://') || ... || !trimmed.includes(':')
AllowedUrl(trimmed) ==
    \/ \E prefix \in AllowedPrefixes : StartsWith(trimmed, prefix)
    \/ ~Includes(trimmed, ":")

\* url is a JavaScript value; the result is a string.
SanitizeUrl(url) ==
    IF url.t # "string" \/ url.s = EmptyString THEN EmptyString
    ELSE LET trimmed  == Trim(url.s)
             lowerUrl == ToLowerCase(trimmed)
         IN IF StartsWith(lowerUrl, JavascriptScheme) THEN EmptyString
            ELSE IF StartsWith(lowerUrl, DataScheme) /\ ~StartsWith(lowerUrl, DataImagePrefix)
                 THEN EmptyString
            ELSE IF AllowedUrl(trimmed) THEN trimmed
            ELSE EmptyString

(***************************************************************************)
(* The call sanitizeUrl(url): url is white space, a beginning, an end and  *)
(* white space, or a value that is no string.                              *)
(***************************************************************************)
\* number of white space characters on either side of the URL
MaxPad == 1

UrlBeginnings ==
    {<<>>,
     <<"j", "a", "v", "a", "s", "c", "r", "i", "p", "t", ":">>,
     <<"J", "a", "v", "a", "S", "c", "r", "i", "p", "t", ":">>,
     <<"d", "a", "t", "a", ":">>,
     <<"d", "a", "t", "a", ":", "t", "e", "x", "t", "/">>,
     <<"d", "a", "t", "a", ":", "i", "m", "a", "g", "e", "/">>,
     <<"D", "A", "T", "A", ":", "i", "m", "a", "g", "e", "/">>,
     <<"h", "t", "t", "p", ":", "/", "/">>,
     <<"H", "T", "T", "P", ":", "/", "/">>,
     <<"h", "t", "t", "p", "s", ":", "/", "/">>,
     <<"m", "a", "i", "l", "t", "o", ":">>,
     <<"t", "e", "l", ":">>,
     <<"/">>,
     <<".", "/">>,
     <<".", ".", "/">>,
     <<"f", "t", "p", ":", "/", "/">>}

UrlEndings == {<<>>, <<"x">>, <<"a", ":", "b">>}

Padding == {[i \in 1..k |-> " "] : k \in 0..MaxPad}

UrlArguments ==
    {StringValue(lead \o b \o e \o trail) :
        lead \in Padding, b \in UrlBeginnings, e \in UrlEndings, trail \in Padding}
        \cup {Undefined, Null, NumberValue(0), NumberValue(12)}

SanitizeInit ==
    /\ nodes = Graph(0, <<>>, <<>>)
    /\ startNode = ""
    /\ queue = <<>>
    /\ qi = 0
    /\ visited = {}
    /\ levels = EmptyLevels
    /\ pc = "call"
    /\ \E url \in UrlArguments : call = [fn |-> "sanitizeUrl", url |-> url]
    /\ result = NoResult

CallSanitizeUrl ==
    /\ pc = "call"
    /\ result' = [fn |-> "sanitizeUrl", value |-> SanitizeUrl(call.url)]
    /\ pc' = "returned"
    /\ UNCHANGED <<nodes, startNode, queue, qi, visited, levels, call>>

SanitizeNext == CallSanitizeUrl

SanitizeSpec == SanitizeInit /\ [][SanitizeNext]_vars

(***************************************************************************)
(* Properties of sanitizeUrl                                               *)
(***************************************************************************)
GotSanitized == pc = "returned" /\ result.fn = "sanitizeUrl"

\* C14: for a string argument, with t the trimmed argument and l its
\* lower-cased form: when l starts with 'javascript:', or with 'data:' but
\* not 'data:image/', the result is ''; when l starts with 'data:image/' the
\* result is t; when t starts with http://, https://, mailto:, tel:, /, ./
\* or ../ or has no ':' the result is t; for every other t the result is ''.
C14_UrlSanitized ==
    (GotSanitized /\ call.url.t = "string") =>
        LET t == Trim(call.url.s)
            l == ToLowerCase(t)
        IN
        IF StartsWith(l, JavascriptScheme) THEN result.value = EmptyString
        ELSE IF StartsWith(l, DataImagePrefix) THEN result.value = t /\ t # EmptyString
        ELSE IF StartsWith(l, DataScheme) THEN result.value = EmptyString
        ELSE IF (\E prefix \in AllowedPrefixes : StartsWith(t, prefix)) \/ ~Includes(t, ":")
             THEN result.value = t
        ELSE result.value = EmptyString

\* The part of C14 the code keeps: the result is the trimmed argument when
\* that starts with a prefix of the allow list or has no ':', and '' for
\* everything else, javascript: and every data: URL included.
UrlAllowListOnly ==
    (GotSanitized /\ call.url.t = "string") =>
        LET t == Trim(call.url.s)
            l == ToLowerCase(t)
        IN
        /\ result.value \in {t, EmptyString}
        /\ result.value = t <=>
              ((\E prefix \in AllowedPrefixes : StartsWith(t, prefix)) \/ ~Includes(t, ":"))
        /\ (StartsWith(l, JavascriptScheme) \/ StartsWith(l, DataScheme)) =>
              result.value = EmptyString

\* a data:image/ URL was sanitized to ''
DataImageBlocked ==
    /\ GotSanitized
    /\ call.url = StringValue(DataImagePrefix \o <<"x">>)
    /\ result.value = EmptyString

(***************************************************************************)
(* getNodeLevel                                                            *)
(***************************************************************************)
\* nodeIds.indexOf(nodeId), counted from 0; -1 when absent
IndexOf(s, x) ==
    IF Includes(s, x)
    THEN (CHOOSE i \in DOMAIN s : s[i] = x /\ \A j \in 1..(i - 1) : s[j] # x) - 1
    ELSE -1

\* a === b on numbers (NaN equals nothing)
StrictEquals(a, b) == ~a.nan /\ ~b.nan /\ a.v = b.v

\* for (const [level, nodeIds] of Object.entries(levelsMap)) {
\*     const idx = nodeIds.indexOf(nodeId);
\*     if (idx !== -1) return { level: parseInt(level), position: idx + 1 };
\* }
\* return { level: 0, position: 1 };
LookupNodeLevel(lv, nodeId) ==
    LET hits == {l \in DOMAIN lv : IndexOf(lv[l], nodeId) # -1} IN
    IF hits = {} THEN [level |-> Num(0), position |-> 1]
    ELSE LET l == CHOOSE l \in hits : \A m \in hits : l <= m IN
         [level    |-> ParseIntString(NumberToString(Num(l))),
          position |-> IndexOf(lv[l], nodeId) + 1]

\* Object.keys(nodes).filter(id => getEffectiveLevel(id, ...) === effectiveLevel)
NodesAtSameLevel(n, start, calculatedLevels, effectiveLevel) ==
    SelectSeqBy(ObjectKeys(n),
        {id \in OwnKeys(n) :
            StrictEquals(GetEffectiveLevel(id, n, start, GivenLevelsMap(calculatedLevels)),
                         effectiveLevel)})

GetNodeLevel(nodeId, n, start, levelsMap) ==
    IF levelsMap.given
    THEN LookupNodeLevel(levelsMap.map, nodeId)
    ELSE LET calculatedLevels == CalculateNodeLevels(n, start)
             effectiveLevel   ==
                 GetEffectiveLevel(nodeId, n, start, GivenLevelsMap(calculatedLevels))
         IN [level    |-> effectiveLevel,
             position |-> IndexOf(NodesAtSameLevel(n, start, calculatedLevels, effectiveLevel),
                                  nodeId) + 1]

(***************************************************************************)
(* The call getNodeLevel(nodeId, nodes, startNode[, levelsMap]), the level *)
(* map being the one calculateNodeLevels returns for the same arguments.   *)
(***************************************************************************)
CallGetNodeLevel ==
    /\ pc = "call"
    /\ \E nodeId \in OwnKeys(nodes) \cup {"ghost"} : \E withMap \in BOOLEAN :
        /\ call' = [fn |-> "getNodeLevel", nodeId |-> nodeId, withMap |-> withMap]
        /\ result' =
              [fn    |-> "getNodeLevel",
               value |-> GetNodeLevel(nodeId, nodes, startNode,
                            IF withMap
                            THEN GivenLevelsMap(CalculateNodeLevels(nodes, startNode))
                            ELSE NoLevelsMap)]
    /\ pc' = "returned"
    /\ UNCHANGED <<nodes, startNode, queue, qi, visited, levels>>

NodeLevelNext == CallGetNodeLevel

NodeLevelSpec == LayoutInit /\ [][NodeLevelNext]_vars

(***************************************************************************)
(* Properties of getNodeLevel                                              *)
(***************************************************************************)
GotNodeLevel == pc = "returned" /\ result.fn = "getNodeLevel"

\* the level map argument of the other way to make the same call
OtherLevelsMap ==
    IF call.withMap THEN NoLevelsMap
    ELSE GivenLevelsMap(CalculateNodeLevels(nodes, startNode))

\* C15: for every key of the mapping, getNodeLevel returns the same level
\* with the level map of calculateNodeLevels as without it, and that level
\* is the key's effective level (its level property first, its computed
\* level otherwise), level properties or not.
C15_SameLevelWithMap ==
    (GotNodeLevel /\ call.nodeId \in OwnKeys(nodes)) =>
        /\ result.value.level =
              GetNodeLevel(call.nodeId, nodes, startNode, OtherLevelsMap).level
        /\ result.value.level =
              GetEffectiveLevel(call.nodeId, nodes, startNode, NoLevelsMap)

\* The part of C15 the code keeps: the two calls agree, on the computed
\* level, for a key whose level property is absent, null or ''.
SameLevelWhenUnset ==
    (GotNodeLevel /\ call.nodeId \in OwnKeys(nodes)
        /\ ~HasExplicitLevel(nodes, call.nodeId)) =>
        /\ result.value.level =
              GetNodeLevel(call.nodeId, nodes, startNode, OtherLevelsMap).level
        /\ result.value.level = Num(ComputedLevel(nodes, startNode, call.nodeId))

\* a call with the level map returned the computed level 1 of a key whose
\* level property is 12
OverrideIgnoredWithMap ==
    /\ GotNodeLevel
    /\ call.withMap
    /\ call.nodeId = startNode
    /\ LevelOf(nodes, call.nodeId) = NumberValue(12)
    /\ result.value.level = Num(1)
    /\ GetNodeLevel(call.nodeId, nodes, startNode, NoLevelsMap).level = Num(12)

====
